---- MODULE Spec2Model ----
(***************************************************************************)
(* Model of app.py, a Streamlit page: every user interaction re-runs       *)
(* main() from the top (one "render pass").  The pass loads four tables    *)
(* through the memoised load_data(), lets the user pick a league, a home   *)
(* team and an away team, blends three probabilities with three slider     *)
(* weights, and prints a tier, a recommendation and the head-to-head rows. *)
(*                                                                         *)
(* Python floats are IEEE-754 binary64.  They are modelled bit-exactly:    *)
(* a float is <<m, e>> with value m * 2^e, m a 53-bit natural held as a    *)
(* little-endian sequence of base-2^15 limbs (zero is <<0,0,0,0>>, 0).     *)
(* Every operation rounds to nearest, ties to even, as the hardware does.  *)
(* All values of the program are non-negative and far from the subnormal   *)
(* and overflow ranges, so sign, subnormals and infinities are left out.   *)
(***************************************************************************)
EXTENDS Integers, Sequences, FiniteSets, TLC

----------------------------------------------------------------------------
(* Natural numbers of any size: little-endian sequences of limbs.          *)

Base == 32768

MantBits == 53

\* 2^n for n <= 15.
Pow2(n) ==
  <<1, 2, 4, 8, 16, 32, 64, 128, 256, 512, 1024, 2048, 4096, 8192, 16384,
    32768>>[n + 1]

RECURSIVE Zeros(_)
Zeros(n) == IF n = 0 THEN <<>> ELSE <<0>> \o Zeros(n - 1)

\* Drop the high-order zero limbs.
RECURSIVE Trim(_)
Trim(a) ==
  IF a = <<>> THEN <<>>
  ELSE IF a[Len(a)] = 0 THEN Trim(SubSeq(a, 1, Len(a) - 1)) ELSE a

\* Pad with high-order zero limbs to n limbs.
Pad(a, n) == IF Len(a) >= n THEN a ELSE a \o Zeros(n - Len(a))

BigIsZero(a) == \A i \in 1..Len(a) : a[i] = 0

RECURSIVE SmallBitLen(_)
SmallBitLen(x) == IF x = 0 THEN 0 ELSE 1 + SmallBitLen(x \div 2)

\* The bit length of a trimmed number.
TrimmedBitLen(t) ==
  IF t = <<>> THEN 0 ELSE 15 * (Len(t) - 1) + SmallBitLen(t[Len(t)])

BitLen(a) == TrimmedBitLen(Trim(a))

Max(i, j) == IF i >= j THEN i ELSE j

RECURSIVE AddCarry(_, _, _, _)
AddCarry(a, b, i, c) ==
  IF i > Len(a) THEN (IF c = 0 THEN <<>> ELSE <<c>>)
  ELSE LET s == a[i] + b[i] + c
       IN  <<s % Base>> \o AddCarry(a, b, i + 1, s \div Base)

BigAdd(a, b) ==
  AddCarry(Pad(a, Max(Len(a), Len(b))), Pad(b, Max(Len(a), Len(b))), 1, 0)

\* a - b for a >= b.
RECURSIVE SubBorrow(_, _, _, _)
SubBorrow(a, b, i, c) ==
  IF i > Len(a) THEN <<>>
  ELSE LET s == a[i] - b[i] - c
       IN  IF s < 0 THEN <<s + Base>> \o SubBorrow(a, b, i + 1, 1)
           ELSE <<s>> \o SubBorrow(a, b, i + 1, 0)

BigSub(a, b) == SubBorrow(a, Pad(b, Len(a)), 1, 0)

\* -1, 0, 1 as a < b, a = b, a > b; a and b of the same length.
RECURSIVE CmpFrom(_, _, _)
CmpFrom(a, b, i) ==
  IF i = 0 THEN 0
  ELSE IF a[i] > b[i] THEN 1
  ELSE IF a[i] < b[i] THEN -1
  ELSE CmpFrom(a, b, i - 1)

BigCmp(a, b) ==
  CmpFrom(Pad(a, Max(Len(a), Len(b))), Pad(b, Max(Len(a), Len(b))),
          Max(Len(a), Len(b)))

\* a * d for one limb d.
RECURSIVE MulLimb(_, _, _, _)
MulLimb(a, d, i, c) ==
  IF i > Len(a) THEN (IF c = 0 THEN <<>> ELSE <<c>>)
  ELSE LET s == a[i] * d + c
       IN  <<s % Base>> \o MulLimb(a, d, i + 1, s \div Base)

RECURSIVE MulFrom(_, _, _)
MulFrom(a, b, j) ==
  IF j > Len(b) THEN <<>>
  ELSE BigAdd(Zeros(j - 1) \o MulLimb(a, b[j], 1, 0), MulFrom(a, b, j + 1))

BigMul(a, b) == MulFrom(a, b, 1)

\* a * 2^k.
ShiftLeft(a, k) == Zeros(k \div 15) \o MulLimb(a, Pow2(k % 15), 1, 0)

\* floor(a / 2^k) for a of at least one limb beyond the k bits dropped.
RECURSIVE ShrBits(_, _, _)
ShrBits(a, r, i) ==
  IF i > Len(a) THEN <<>>
  ELSE LET hi == IF i < Len(a) THEN a[i + 1] % Pow2(r) ELSE 0
       IN  <<(a[i] \div Pow2(r)) + hi * Pow2(15 - r)>> \o ShrBits(a, r, i + 1)

ShiftRight(a, k) ==
  IF k \div 15 >= Len(a) THEN <<>>
  ELSE ShrBits(SubSeq(a, (k \div 15) + 1, Len(a)), k % 15, 1)

\* a mod 2^k, for a of more than k \div 15 limbs.
LowLimbs(a, q, r) == SubSeq(a, 1, q) \o <<a[q + 1] % Pow2(r)>>

LowBits(a, k) == LowLimbs(Pad(a, (k \div 15) + 1), k \div 15, k % 15)

----------------------------------------------------------------------------
(* binary64 arithmetic.                                                    *)

FZero == <<Zeros(4), 0>>

\* A mantissa in its four limbs.
Mant(a) == Pad(Trim(a), 4)

\* <<m, e>> for a mantissa m of MantBits or MantBits + 1 bits.
Renorm(m, e) ==
  IF BitLen(m) > MantBits THEN <<Mant(ShiftRight(m, 1)), e + 1>>
  ELSE <<Mant(m), e>>

\* Round to nearest, ties to even: m is the kept part, c compares the
\* dropped part with half a unit in the last place (-1, 0, 1).
RoundUp(m, c, e) ==
  IF c = 1 \/ (c = 0 /\ m[1] % 2 = 1) THEN Renorm(BigAdd(m, <<1>>), e)
  ELSE <<m, e>>

\* The float nearest to s * 2^e, for s of n bits.
RoundBits(s, e, n) ==
  IF n = 0 THEN FZero
  ELSE IF n <= MantBits
  THEN <<Mant(ShiftLeft(s, MantBits - n)), e - (MantBits - n)>>
  ELSE RoundUp(Mant(ShiftRight(s, n - MantBits)),
               BigCmp(LowBits(s, n - MantBits),
                      ShiftLeft(<<1>>, n - MantBits - 1)),
               e + (n - MantBits))

RoundBig(s, e) == RoundBits(s, e, BitLen(s))

FromInt(n) == RoundBig(<<n % Base, n \div Base>>, 0)

FIsZero(x) == BigIsZero(x[1])

FMul(x, y) ==
  IF FIsZero(x) \/ FIsZero(y) THEN FZero
  ELSE RoundBig(BigMul(x[1], y[1]), x[2] + y[2])

\* hi + lo for hi[2] >= lo[2], neither zero.
AddAligned(hi, lo) ==
  IF hi[2] - lo[2] > MantBits + 2 THEN hi
  ELSE RoundBig(BigAdd(ShiftLeft(hi[1], hi[2] - lo[2]), lo[1]), lo[2])

FAdd(x, y) ==
  IF FIsZero(x) THEN y
  ELSE IF FIsZero(y) THEN x
  ELSE IF x[2] >= y[2] THEN AddAligned(x, y)
  ELSE AddAligned(y, x)

\* The largest q <= qhat with q * d <= r.
RECURSIVE FixDigit(_, _, _)
FixDigit(r, d, qhat) ==
  IF BigCmp(MulLimb(d, qhat, 1, 0), r) > 0 THEN FixDigit(r, d, qhat - 1)
  ELSE qhat

TakeDigit(r, d, q) == <<q, Mant(BigSub(r, MulLimb(d, q, 1, 0)))>>

Min(i, j) == IF i <= j THEN i ELSE j

\* One step of long division in base 2^15 (Knuth's algorithm D): for r < d and
\* d of 4 limbs with its top limb >= 2^14, the digit floor(r / d) and the
\* remainder, as <<digit, remainder>>; r is the running remainder times 2^15.
DivDigit(r, d) ==
  TakeDigit(r, d, FixDigit(r, d, Min(Base - 1, (r[5] * Base + r[4]) \div d[4])))

\* i more digits of the quotient q: <<the quotient, whether a remainder is left>>.
RECURSIVE DivLoop(_, _, _, _)
DivLoop(r, d, q, i) ==
  IF i = 0 THEN <<q, ~BigIsZero(r)>>
  ELSE LET s == DivDigit(<<0>> \o r, d)
       IN  DivLoop(s[2], d, <<s[1]>> \o q, i - 1)

\* floor(n * 2^60 / d) and whether the division left a remainder, for
\* 60-bit n and d with n < 2d.
DivBig(n, d) ==
  IF BigCmp(n, d) >= 0 THEN DivLoop(Mant(BigSub(n, d)), d, <<1>>, 4)
  ELSE DivLoop(n, d, <<0>>, 4)

\* The quotient with a sticky bit appended, rounded once.
DivRound(qr, e) ==
  RoundBig(BigAdd(ShiftLeft(qr[1], 1), <<IF qr[2] THEN 1 ELSE 0>>), e)

\* x / y for y # 0.
FDiv(x, y) ==
  IF FIsZero(x) THEN FZero
  ELSE DivRound(DivBig(Mant(ShiftLeft(x[1], 7)), Mant(ShiftLeft(y[1], 7))),
                x[2] - y[2] - 61)

FLt(x, y) ==
  IF FIsZero(y) THEN FALSE
  ELSE IF FIsZero(x) THEN TRUE
  ELSE IF x[2] # y[2] THEN x[2] < y[2]
  ELSE BigCmp(x[1], y[1]) < 0

FGe(x, y) == ~FLt(x, y)

FLe(x, y) == ~FLt(y, x)

\* The float a decimal text with two fractional digits parses to: n / 100.
Hundredths(n) == FDiv(FromInt(n), FromInt(100))

----------------------------------------------------------------------------
(* The files the notebook writes, as the text the CSV files hold: a         *)
(* probability is its two-digit decimal, in hundredths.                     *)

LeagueFile == "league_probabilities.csv"
HomeFile == "home_team_probabilities.csv"
GuestFile == "guest_team_probabilities.csv"
HistoryFile == "clean_data_bet.csv"

Files == {LeagueFile, HomeFile, GuestFile, HistoryFile}

Row(p, r, g) == [probability |-> p, reliability |-> r, total_games |-> g]

Match(i, l, h, g) == [id |-> i, league |-> l, home_team |-> h, guest_team |-> g]

\* One run of the notebook.  NBL has no home team with a probability row, VTB no
\* away team with one; Lions and Wolves also met outside ACB; Lions never
\* hosted Eagles in ACB, nor Hawks Wolves.
DataA ==
  LeagueFile :> ( "ACB" :> Row(60, "High", 300) @@ "BBL" :> Row(10, "Medium", 80)
               @@ "LNB" :> Row(100, "Low", 4)   @@ "NBL" :> Row(45, "Very High", 900)
               @@ "VTB" :> Row(40, "High", 250) )
  @@ HomeFile :> ( "Bears" :> Row(55, "High", 40) @@ "Hawks" :> Row(45, "Low", 6)
               @@ "Lions" :> Row(100, "Very High", 70) )
  @@ GuestFile :> ( "Eagles" :> Row(100, "High", 35) @@ "Wolves" :> Row(55, "High", 50)
                @@ "Storks" :> Row(40, "Medium", 20) )
  @@ HistoryFile :> { Match(0, "ACB", "Lions", "Wolves"), Match(1, "ACB", "Hawks", "Eagles"),
                      Match(2, "BBL", "Bears", "Wolves"), Match(3, "BBL", "Lions", "Wolves"),
                      Match(4, "LNB", "Lions", "Eagles"), Match(5, "VTB", "Lions", "Ghosts"),
                      Match(6, "NBL", "Ghosts", "Wolves"), Match(7, "ACB", "Hawks", "Storks") }

\* A later run of the notebook: keys of DataA with other numbers and labels.
DataB ==
  LeagueFile :> ( "ACB" :> Row(70, "Very High", 310) )
  @@ HomeFile :> ( "Lions" :> Row(65, "High", 72) @@ "Hawks" :> Row(50, "Medium", 8) )
  @@ GuestFile :> ( "Wolves" :> Row(55, "High", 51) @@ "Eagles" :> Row(62, "Low", 3)
                @@ "Storks" :> Row(48, "Very High", 90) )
  @@ HistoryFile :> { Match(0, "ACB", "Lions", "Wolves"), Match(1, "ACB", "Lions", "Wolves"),
                      Match(2, "ACB", "Hawks", "Eagles"), Match(3, "ACB", "Lions", "Storks") }

Datasets == {DataA, DataB}

\* What the working directory may hold when load_data() reads it.
DiskStates ==
  {[f \in Files \ missing |-> d[f]] : d \in Datasets, missing \in SUBSET Files}

----------------------------------------------------------------------------
(* Bounds.                                                                  *)

\* The sliders run from 0.00 to 1.00; the model moves them in tenths up to
\* MaxTick tenths.
MaxTick == 4

Ticks == {10 * k : k \in 0..MaxTick}

\* The slider positions of the session specification.
SessionWeights == {<<40, 30, 30>>, <<0, 0, 0>>, <<10, 10, 10>>}

\* The largest factor by which a weight vector is scaled.
MaxScale == 3

\* The top of every slider, in hundredths.
SliderMax == 100

----------------------------------------------------------------------------
(* The pure parts of app.py.                                                *)

\* pd.read_csv(..., index_col=0) of a probability table.
read_csv(text) ==
  [k \in DOMAIN text |->
     [probability |-> Hundredths(text[k].probability),
      reliability |-> text[k].reliability,
      total_games |-> text[k].total_games]]

\* read_all with a missing file read as an empty table instead of raising.
read_all_lenient(disk) ==
  <<[league_probs |-> IF LeagueFile \in DOMAIN disk THEN read_csv(disk[LeagueFile]) ELSE <<>>,
     home_probs |-> IF HomeFile \in DOMAIN disk THEN read_csv(disk[HomeFile]) ELSE <<>>,
     guest_probs |-> IF GuestFile \in DOMAIN disk THEN read_csv(disk[GuestFile]) ELSE <<>>,
     historical_data |-> IF HistoryFile \in DOMAIN disk THEN disk[HistoryFile] ELSE {}]>>

\* The body of load_data(): the first missing file raises FileNotFoundError.
read_all(disk) ==
  IF Files \subseteq DOMAIN disk
  THEN <<[league_probs |-> read_csv(disk[LeagueFile]),
          home_probs |-> read_csv(disk[HomeFile]),
          guest_probs |-> read_csv(disk[GuestFile]),
          historical_data |-> disk[HistoryFile]]>>
  ELSE <<>>

\* load_data() without the decorator: the files are read on every call.
load_data_uncached(memo, disk) == <<read_all(disk), read_all(disk)>>

\* load_data() under @st.cache_data: <<the memo after the call, the tables
\* returned>>; the tables are <<>> when FileNotFoundError is raised, and a
\* raised call leaves the memo empty.
load_data(memo, disk) ==
  IF memo # <<>> THEN <<memo, memo>>
  ELSE <<read_all(disk), read_all(disk)>>

HighColor == "high-probability"
MediumColor == "medium-probability"
LowColor == "low-probability"

F060 == Hundredths(60)
F045 == Hundredths(45)
F040 == Hundredths(40)

\* get_probability_color with the upper boundary exclusive.
get_probability_color_gt(prob) ==
  IF FLt(F060, prob) THEN HighColor
  ELSE IF FGe(prob, F045) THEN MediumColor
  ELSE LowColor

get_probability_color(prob) ==
  IF FGe(prob, F060) THEN HighColor
  ELSE IF FGe(prob, F045) THEN MediumColor
  ELSE LowColor

league_teams(t, league) == {r \in t.historical_data : r.league = league}

\* available_home_teams without the intersection with the probability table.
available_home_teams_all(t, league) ==
  {r.home_team : r \in league_teams(t, league)}

available_home_teams(t, league) ==
  {r.home_team : r \in league_teams(t, league)} \cap DOMAIN t.home_probs

available_away_teams(t, league) ==
  {r.guest_team : r \in league_teams(t, league)} \cap DOMAIN t.guest_probs

\* A slider position, in hundredths, as the float the slider returns: the
\* float nearest to the decimal, as the defaults 0.4 and 0.3 of the source are.
slider(k) == Hundredths(k)

total_weight(w) == FAdd(FAdd(w[1], w[2]), w[3])

divided(w, t) == <<FDiv(w[1], t), FDiv(w[2], t), FDiv(w[3], t)>>

\* For total_weight(w) # 0.
normalized(w) == divided(w, total_weight(w))

combined(p, ws) ==
  FAdd(FAdd(FMul(p[1], ws[1]), FMul(p[2], ws[2])), FMul(p[3], ws[3]))

\* Lines 107-111 for probabilities p and slider positions k (hundredths):
\* <<combined_prob>>, or <<>> when the division raises ZeroDivisionError.
\* blend_floats falling back to equal weights when the total is zero.
blend_floats_fallback(p, w) ==
  IF FIsZero(total_weight(w))
  THEN <<combined(p, divided(<<FromInt(1), FromInt(1), FromInt(1)>>, FromInt(3)))>>
  ELSE <<combined(p, normalized(w))>>

blend_floats(p, w) ==
  IF FIsZero(total_weight(w)) THEN <<>>
  ELSE <<combined(p, normalized(w))>>

blend(p, k) == blend_floats(p, <<slider(k[1]), slider(k[2]), slider(k[3])>>)

Strong == "Strong Betting Opportunity"
HighRisk == "High Risk - Consider Avoiding"
Moderate == "Moderate Probability - Proceed with Caution"

HighLabels == {"High", "Very High"}

\* recommendation with the lower boundary exclusive.
recommendation_lt(c, labels) ==
  IF FGe(c, F060) /\ \A i \in 1..3 : labels[i] \in HighLabels THEN Strong
  ELSE IF FLt(c, F040) THEN HighRisk
  ELSE Moderate

recommendation(c, labels) ==
  IF FGe(c, F060) /\ \A i \in 1..3 : labels[i] \in HighLabels THEN Strong
  ELSE IF FLe(c, F040) THEN HighRisk
  ELSE Moderate

\* head_to_head with "|" for "&".
head_to_head_either(t, home, away) ==
  {r \in t.historical_data : r.home_team = home \/ r.guest_team = away}

head_to_head(t, home, away) ==
  {r \in t.historical_data : r.home_team = home /\ r.guest_team = away}

NotebookMsg == "Please run the data processing notebook first to generate the required files."
NoHomeMsg == "No home teams available for this league"
NoAwayMsg == "No away teams available for this league"
NoHistoryMsg == "No historical matches found between these teams"

----------------------------------------------------------------------------
(* The session.  A render pass is one run of main(); pc is the place the    *)
(* script has reached.  None is "" for a name and <<>> for a value.         *)

VARIABLES
  memo,             \* the cache of load_data(): <<>> or <<tables>>
  pc,               \* "load", "league", ..., "done"; "stopped" after st.stop() or a raise
  missing,          \* the files absent when the body of load_data() ran in this pass
  data,             \* the tables main() holds: <<>> or <<tables>>
  selected_league,
  selected_home,
  selected_away,
  p,                \* <<league_p, home_p, away_p>>
  weights,          \* the three slider positions, in hundredths
  combined_prob,    \* <<>> or <<the float>>
  out,              \* what the pass has shown
  ref               \* an earlier pass of the session, remembered: <<>> or <<pass>>

vars == <<memo, pc, missing, data, selected_league, selected_home, selected_away,
          p, weights, combined_prob, out, ref>>

NoOutput ==
  [error |-> "", warning |-> "", exception |-> "", color |-> "", shown_prob |-> <<>>,
   details |-> <<>>, recommendation |-> "", dataframe |-> <<>>, info |-> ""]

\* The top of main() with nothing run yet.
Fresh ==
  /\ pc = "load"
  /\ missing = {}
  /\ data = <<>>
  /\ selected_league = ""
  /\ selected_home = ""
  /\ selected_away = ""
  /\ p = <<>>
  /\ weights = <<>>
  /\ combined_prob = <<>>
  /\ out = NoOutput

Init == memo = <<>> /\ ref = <<>> /\ Fresh

\* The script starts over: every local of main() is gone.
Restart ==
  /\ pc' = "load"
  /\ missing' = {}
  /\ data' = <<>>
  /\ selected_league' = ""
  /\ selected_home' = ""
  /\ selected_away' = ""
  /\ p' = <<>>
  /\ weights' = <<>>
  /\ combined_prob' = <<>>
  /\ out' = NoOutput

Inputs ==
  [league |-> selected_league, home |-> selected_home, away |-> selected_away,
   weights |-> weights]

Outputs == [combined_prob |-> combined_prob, out |-> out]

\* A widget changes and Streamlit runs the script again from the top; a run
\* still under way is abandoned where it stands.
Rerun ==
  /\ pc # "load"
  /\ Restart
  /\ UNCHANGED <<memo, ref>>

\* The same, with the pass that just ended remembered for comparison.
RerunRemember ==
  /\ pc \in {"done", "stopped"}
  /\ ref = <<>>
  /\ ref' = <<[inputs |-> Inputs, outputs |-> Outputs]>>
  /\ Restart
  /\ UNCHANGED memo

\* Lines 48-53.
Load ==
  /\ pc = "load"
  /\ \E disk \in DiskStates :
       LET r == load_data(memo, disk)
       IN  /\ memo' = r[1]
           /\ data' = r[2]
           /\ missing' = IF memo = <<>> THEN Files \ DOMAIN disk ELSE {}
           /\ IF r[2] = <<>>
              THEN /\ out' = [out EXCEPT !.error = NotebookMsg]
                   /\ pc' = "stopped"
              ELSE /\ out' = out
                   /\ pc' = "league"
  /\ UNCHANGED <<selected_league, selected_home, selected_away, p, weights,
                 combined_prob, ref>>

\* Lines 58-64: st.selectbox returns one of its options, None when it has none.
SelectLeague ==
  /\ pc = "league"
  /\ LET options == DOMAIN data[1].league_probs
     IN  IF options = {} THEN selected_league' = ""
         ELSE \E x \in options : selected_league' = x
  /\ pc' = "home"
  /\ UNCHANGED <<memo, missing, data, selected_home, selected_away, p, weights,
                 combined_prob, out, ref>>

\* SelectHome without the st.stop() after the warning.
SelectHomeNoStop ==
  /\ pc = "home"
  /\ LET options == available_home_teams(data[1], selected_league)
     IN  IF options # {}
         THEN /\ \E x \in options : selected_home' = x
              /\ out' = out
         ELSE /\ out' = [out EXCEPT !.warning = NoHomeMsg]
              /\ selected_home' = selected_home
  /\ pc' = "away"
  /\ UNCHANGED <<memo, missing, data, selected_league, selected_away, p, weights,
                 combined_prob, ref>>

\* Lines 66-81.
SelectHome ==
  /\ pc = "home"
  /\ LET options == available_home_teams(data[1], selected_league)
     IN  IF options # {}
         THEN /\ \E x \in options : selected_home' = x
              /\ pc' = "away"
              /\ out' = out
         ELSE /\ out' = [out EXCEPT !.warning = NoHomeMsg]
              /\ pc' = "stopped"
              /\ selected_home' = selected_home
  /\ UNCHANGED <<memo, missing, data, selected_league, selected_away, p, weights,
                 combined_prob, ref>>

\* Lines 83-93.
SelectAway ==
  /\ pc = "away"
  /\ LET options == available_away_teams(data[1], selected_league)
     IN  IF options # {}
         THEN /\ \E x \in options : selected_away' = x
              /\ pc' = "lookup"
              /\ out' = out
         ELSE /\ out' = [out EXCEPT !.warning = NoAwayMsg]
              /\ pc' = "stopped"
              /\ selected_away' = selected_away
  /\ UNCHANGED <<memo, missing, data, selected_league, selected_home, p, weights,
                 combined_prob, ref>>

\* Lines 96-98: .loc raises KeyError for a label the index does not hold.
Lookup ==
  /\ pc = "lookup"
  /\ LET t == data[1]
     IN  IF /\ selected_league \in DOMAIN t.league_probs
            /\ selected_home \in DOMAIN t.home_probs
            /\ selected_away \in DOMAIN t.guest_probs
         THEN /\ p' = <<t.league_probs[selected_league].probability,
                        t.home_probs[selected_home].probability,
                        t.guest_probs[selected_away].probability>>
              /\ pc' = "sliders"
              /\ out' = out
         ELSE /\ out' = [out EXCEPT !.exception = "KeyError"]
              /\ pc' = "stopped"
              /\ p' = p
  /\ UNCHANGED <<memo, missing, data, selected_league, selected_home, selected_away,
                 weights, combined_prob, ref>>

\* Lines 100-104: the three sliders hold positions of the set W.
Sliders(W) ==
  /\ pc = "sliders"
  /\ \E k \in W : weights' = k
  /\ pc' = "blend"
  /\ UNCHANGED <<memo, missing, data, selected_league, selected_home, selected_away,
                 p, combined_prob, out, ref>>

\* Lines 106-111.
Blend ==
  /\ pc = "blend"
  /\ LET c == blend(p, weights)
     IN  IF c = <<>>
         THEN /\ out' = [out EXCEPT !.exception = "ZeroDivisionError"]
              /\ pc' = "stopped"
              /\ combined_prob' = combined_prob
         ELSE /\ combined_prob' = c
              /\ pc' = "display"
              /\ out' = out
  /\ UNCHANGED <<memo, missing, data, selected_league, selected_home, selected_away,
                 p, weights, ref>>

Labels ==
  <<data[1].league_probs[selected_league].reliability,
    data[1].home_probs[selected_home].reliability,
    data[1].guest_probs[selected_away].reliability>>

\* Lines 113-152: the headline in its color, then the three cards.
Display ==
  /\ pc = "display"
  /\ out' = [out EXCEPT
       !.color = get_probability_color(combined_prob[1]),
       !.shown_prob = combined_prob,
       !.details =
         <<[probability |-> p[1], reliability |-> Labels[1],
            total_games |-> data[1].league_probs[selected_league].total_games],
           [probability |-> p[2], reliability |-> Labels[2],
            total_games |-> data[1].home_probs[selected_home].total_games],
           [probability |-> p[3], reliability |-> Labels[3],
            total_games |-> data[1].guest_probs[selected_away].total_games]>>]
  /\ pc' = "recommend"
  /\ UNCHANGED <<memo, missing, data, selected_league, selected_home, selected_away,
                 p, weights, combined_prob, ref>>

\* Lines 154-164.
Recommend ==
  /\ pc = "recommend"
  /\ out' = [out EXCEPT !.recommendation = recommendation(combined_prob[1], Labels)]
  /\ pc' = "history"
  /\ UNCHANGED <<memo, missing, data, selected_league, selected_home, selected_away,
                 p, weights, combined_prob, ref>>

\* Lines 166-175.
History ==
  /\ pc = "history"
  /\ LET rows == head_to_head(data[1], selected_home, selected_away)
     IN  IF rows # {}
         THEN out' = [out EXCEPT !.dataframe = <<rows>>]
         ELSE out' = [out EXCEPT !.info = NoHistoryMsg]
  /\ pc' = "done"
  /\ UNCHANGED <<memo, missing, data, selected_league, selected_home, selected_away,
                 p, weights, combined_prob, ref>>

Next ==
  \/ Rerun
  \/ Load
  \/ SelectLeague
  \/ SelectHome
  \/ SelectAway
  \/ Lookup
  \/ Sliders(Ticks \X Ticks \X Ticks)
  \/ Blend
  \/ Display
  \/ Recommend
  \/ History

Spec == Init /\ [][Next]_vars

NextSession ==
  \/ Rerun
  \/ RerunRemember
  \/ Load
  \/ SelectLeague
  \/ SelectHome
  \/ SelectAway
  \/ Lookup
  \/ Sliders(SessionWeights)
  \/ Blend
  \/ Display
  \/ Recommend
  \/ History

SessionSpec == Init /\ [][NextSession]_vars

----------------------------------------------------------------------------
(* Properties.                                                              *)

F1 == FromInt(1)

AllHigh == \A i \in 1..3 : Labels[i] \in {"High", "Very High"}

\* C1: once a pass has printed its recommendation, the label is exactly one of
\* the three, by priority: Strong iff combined >= 0.60 with all three
\* reliabilities High or Very High; else High Risk iff combined <= 0.40; else
\* Moderate.  Combined exactly 0.60 with a lesser reliability is Moderate, and
\* combined exactly 0.40 is High Risk whatever the reliabilities.
RecommendationByPriority ==
  pc \in {"history", "done"} =>
    LET c == combined_prob[1]
        r == out.recommendation
    IN  /\ r \in {Strong, HighRisk, Moderate}
        /\ r = Strong <=> (FGe(c, F060) /\ AllHigh)
        /\ r = HighRisk <=> (~(FGe(c, F060) /\ AllHigh) /\ FLe(c, F040))
        /\ r = Moderate <=> (~(FGe(c, F060) /\ AllHigh) /\ ~FLe(c, F040))
        /\ (c = F060 /\ ~AllHigh) => r = Moderate
        /\ c = F040 => r = HighRisk

\* Combined exactly 0.60 with a reliability below High: Moderate.
ModerateAtSixtyWitness ==
  /\ pc = "done"
  /\ combined_prob = <<F060>>
  /\ ~AllHigh
  /\ out.recommendation = Moderate

\* C2: every combined probability a pass computes lies in [0, 1] (a float of
\* the model is never negative, so the upper end is what is stated).
CombinedInUnitInterval ==
  combined_prob # <<>> => FLe(combined_prob[1], F1)

\* C3: the color of the headline is high iff prob >= 0.60, medium iff
\* 0.45 <= prob < 0.60, low iff prob < 0.45, and is always one of the three.
ColorPartition ==
  pc \in {"recommend", "history", "done"} =>
    LET c == combined_prob[1]
    IN  /\ out.color \in {HighColor, MediumColor, LowColor}
        /\ out.color = HighColor <=> FGe(c, F060)
        /\ out.color = MediumColor <=> (FGe(c, F045) /\ FLt(c, F060))
        /\ out.color = LowColor <=> FLt(c, F045)

\* Both inclusive lower bounds are met: a pass whose combined probability is
\* exactly 0.45 shows medium.
MediumAtFortyFiveWitness ==
  /\ pc = "done"
  /\ combined_prob = <<F045>>
  /\ out.color = MediumColor

Scaled(k, s) == <<s * k[1], s * k[2], s * k[3]>>

\* C4: the sliders at s times their positions (where that is still on the
\* sliders) give the same combined probability, color and recommendation.
ScalingInvariant ==
  combined_prob # <<>> =>
    \A s \in 2..MaxScale :
      (\A i \in 1..3 : s * weights[i] <= SliderMax) =>
        LET c == blend(p, Scaled(weights, s))
        IN  /\ c = combined_prob
            /\ get_probability_color(c[1]) = get_probability_color(combined_prob[1])
            /\ recommendation(c[1], Labels) = recommendation(combined_prob[1], Labels)

\* C5: a pass whose load_data() found a file missing shows the notebook
\* message and nothing else, and is stopped with nothing selected or computed.
MissingFileHalts ==
  missing # {} =>
    /\ pc = "stopped"
    /\ out = [NoOutput EXCEPT !.error = NotebookMsg]
    /\ data = <<>>
    /\ selected_league = "" /\ selected_home = "" /\ selected_away = ""
    /\ p = <<>> /\ weights = <<>> /\ combined_prob = <<>>

\* Only the file read last is missing, and the pass has halted on the message.
MissingHistoryWitness ==
  /\ missing = {HistoryFile}
  /\ pc = "stopped"
  /\ out.error = NotebookMsg

PastHome == data # <<>> /\ pc \notin {"load", "league", "home"}

PastAway == PastHome /\ pc # "away"

\* C6: past the home selectbox with no eligible home team, the pass is stopped
\* on the "no home teams" warning alone; past the away selectbox with home
\* teams but no eligible away team, on the "no away teams" warning alone.  No
\* exception, combined probability, recommendation or historical output.
NoEligibleTeamsHalts ==
  /\ (PastHome /\ available_home_teams(data[1], selected_league) = {}) =>
       /\ pc = "stopped"
       /\ out = [NoOutput EXCEPT !.warning = NoHomeMsg]
       /\ selected_home = "" /\ selected_away = ""
       /\ p = <<>> /\ weights = <<>> /\ combined_prob = <<>>
  /\ (/\ PastAway
      /\ available_home_teams(data[1], selected_league) # {}
      /\ available_away_teams(data[1], selected_league) = {}) =>
       /\ pc = "stopped"
       /\ out = [NoOutput EXCEPT !.warning = NoAwayMsg]
       /\ selected_home # "" /\ selected_away = ""
       /\ p = <<>> /\ weights = <<>> /\ combined_prob = <<>>

\* A home team was chosen, no away team is eligible, and the pass has halted.
NoAwayWitness ==
  /\ pc = "stopped"
  /\ selected_home # ""
  /\ available_away_teams(data[1], selected_league) = {}
  /\ out.warning = NoAwayMsg

PairRows ==
  {r \in data[1].historical_data :
     r.home_team = selected_home /\ r.guest_team = selected_away}

\* C7: a pass that has run the historical step shows either the rows of the
\* selected pair, all of them and of any league, or the "no historical
\* matches" note, and the note exactly when the pair has no row.
HeadToHeadOrNote ==
  pc = "done" =>
    \/ /\ PairRows # {}
       /\ out.dataframe = <<PairRows>>
       /\ out.info = ""
    \/ /\ PairRows = {}
       /\ out.dataframe = <<>>
       /\ out.info = NoHistoryMsg

\* The rows shown include a match played outside the selected league.
OtherLeagueRowWitness ==
  /\ pc = "done"
  /\ out.dataframe # <<>>
  /\ \E r \in out.dataframe[1] : r.league # selected_league

\* A finished pass agrees with the remembered pass of the same inputs.
SameInputsSameOutputs ==
  (/\ ref # <<>>
   /\ pc \in {"done", "stopped"}
   /\ selected_league # ""
   /\ ref[1].inputs = Inputs) => ref[1].outputs = Outputs

\* C8: the loaded tables never change once loaded, every pass works on them,
\* and two passes of a session with the same league, home team, away team and
\* weights show the same outputs.
NoHiddenState ==
  /\ [][memo # <<>> => memo' = memo]_vars
  /\ [](data # <<>> => data = memo)
  /\ []SameInputsSameOutputs

\* Two passes with the same inputs that both computed a combined probability.
RepeatedPassWitness ==
  /\ ref # <<>>
  /\ pc = "done"
  /\ ref[1].inputs = Inputs
  /\ combined_prob # <<>>

\* C9: with the three sliders at zero the pass ends at the normalization with
\* ZeroDivisionError and shows no combined probability, color or
\* recommendation.
ZeroWeightsRaise ==
  (weights = <<0, 0, 0>> /\ pc # "blend") =>
    /\ pc = "stopped"
    /\ out = [NoOutput EXCEPT !.exception = "ZeroDivisionError"]
    /\ combined_prob = <<>>

ZeroWeightsWitness ==
  /\ weights = <<0, 0, 0>>
  /\ pc = "stopped"
  /\ out.exception = "ZeroDivisionError"

ReachedLookups == pc = "lookup" \/ p # <<>> \/ out.exception = "KeyError"

\* C10: in a pass that reaches the lookups, the league is a key of the league
\* table, the home team a key of the home table and the home team of a row of
\* that league, the away team a key of the guest table and the guest team of a
\* row of that league; no lookup raises KeyError.
SelectionsAreKeys ==
  ReachedLookups =>
    /\ selected_league \in DOMAIN data[1].league_probs
    /\ selected_home \in DOMAIN data[1].home_probs
    /\ selected_away \in DOMAIN data[1].guest_probs
    /\ \E r \in data[1].historical_data :
         r.league = selected_league /\ r.home_team = selected_home
    /\ \E r \in data[1].historical_data :
         r.league = selected_league /\ r.guest_team = selected_away
    /\ out.exception # "KeyError"

\* The three lookups have been made.
LookupsDoneWitness ==
  /\ pc = "sliders"
  /\ p # <<>>
  /\ selected_away # ""

====
